---- MODULE Spec2Model ----
(***************************************************************************)
(* A model of tf (src/src/main.rs): a batch organiser that walks a source  *)
(* tree, classifies every regular file as picture or video from its        *)
(* extension, buckets it by the year and month of its modification time,   *)
(* and renames it to  destination/<category>/<person>/<year>/<month>/name. *)
(*                                                                         *)
(* The file system is the program's only state.  It is modelled as a map   *)
(* from canonical paths (sequences of components) to regular files and a   *)
(* map from canonical paths to directories with their permission bits.     *)
(* Symbolic links and several volumes are outside the model: every path    *)
(* is a regular file or a directory on one volume.                         *)
(***************************************************************************)
EXTENDS Integers, Sequences, FiniteSets, TLC

(***************************************************************************)
(* Bounds of the model.                                                    *)
(***************************************************************************)
\* the largest number of regular files in the source tree before the run
MaxFiles == 2

(***************************************************************************)
(* Text.  A file name is a sequence of characters (one-character strings); *)
(* the token "<FF>" stands for a byte that is not valid UTF-8.  Join turns *)
(* a sequence of characters into the path component it spells.             *)
(***************************************************************************)
RECURSIVE Join(_)
Join(s) == IF s = <<>> THEN "" ELSE Head(s) \o Join(Tail(s))

InvalidByte == "<FF>"

\* OsStr::to_str: the text of a name, or nothing when it is not valid UTF-8
ToStr(cs) ==
    IF \E i \in 1..Len(cs) : cs[i] = InvalidByte
    THEN [ok |-> FALSE]
    ELSE [ok |-> TRUE, val |-> cs]

UpperToLower ==
    [A |-> "a", B |-> "b", C |-> "c", D |-> "d", E |-> "e", F |-> "f",
     G |-> "g", H |-> "h", I |-> "i", J |-> "j", K |-> "k", L |-> "l",
     M |-> "m", N |-> "n", O |-> "o", P |-> "p", Q |-> "q", R |-> "r",
     S |-> "s", T |-> "t", U |-> "u", V |-> "v", W |-> "w", X |-> "x",
     Y |-> "y", Z |-> "z"]

\* str::to_lowercase, character by character
ToLowercase(cs) ==
    [i \in 1..Len(cs) |->
        IF cs[i] \in DOMAIN UpperToLower THEN UpperToLower[cs[i]] ELSE cs[i]]

\* str::starts_with
StartsWith(cs, prefix) ==
    /\ Len(cs) >= Len(prefix)
    /\ SubSeq(cs, 1, Len(prefix)) = prefix

\* the position of the last "." of a name, 0 when it has none
LastDot(cs) ==
    IF \E i \in 1..Len(cs) : cs[i] = "."
    THEN CHOOSE i \in 1..Len(cs) :
            /\ cs[i] = "."
            /\ \A j \in (i + 1)..Len(cs) : cs[j] # "."
    ELSE 0

\* Path::extension on the final component: what follows the last ".", none
\* when there is no "." or when the only "." is the first character
PathExtension(cs) ==
    IF LastDot(cs) <= 1
    THEN [ok |-> FALSE]
    ELSE [ok |-> TRUE, val |-> SubSeq(cs, LastDot(cs) + 1, Len(cs))]

(***************************************************************************)
(* The extension -> media type table of mime_guess.  The entries for arw   *)
(* and heic differ between versions of the table, so they are a parameter: *)
(* "none" (no entry), "image" (an image/... entry) or "other" (an entry of *)
(* another top-level type).                                                *)
(***************************************************************************)
MimeVariants == {"none", "image", "other"}

ImageJpeg == <<"i","m","a","g","e","/","j","p","e","g">>
ImagePng == <<"i","m","a","g","e","/","p","n","g">>
ImageHeic == <<"i","m","a","g","e","/","h","e","i","c">>
VideoMp4 == <<"v","i","d","e","o","/","m","p","4">>
VideoQuicktime == <<"v","i","d","e","o","/","q","u","i","c","k","t","i","m","e">>
TextPlain == <<"t","e","x","t","/","p","l","a","i","n">>
ApplicationPdf == <<"a","p","p","l","i","c","a","t","i","o","n","/","p","d","f">>
AudioMpeg == <<"a","u","d","i","o","/","m","p","e","g">>
OctetStream == <<"a","p","p","l","i","c","a","t","i","o","n","/",
                 "o","c","t","e","t","-","s","t","r","e","a","m">>

\* mime_guess::from_ext(ext).first(); the table ignores letter case
MimeGuessFirst(ext, variant) ==
    LET e == Join(ToLowercase(ext)) IN
    CASE e = "jpg" -> [ok |-> TRUE, val |-> ImageJpeg]
      [] e = "jpeg" -> [ok |-> TRUE, val |-> ImageJpeg]
      [] e = "png" -> [ok |-> TRUE, val |-> ImagePng]
      [] e = "mp4" -> [ok |-> TRUE, val |-> VideoMp4]
      [] e = "mov" -> [ok |-> TRUE, val |-> VideoQuicktime]
      [] e = "txt" -> [ok |-> TRUE, val |-> TextPlain]
      [] e = "pdf" -> [ok |-> TRUE, val |-> ApplicationPdf]
      [] e = "mp3" -> [ok |-> TRUE, val |-> AudioMpeg]
      [] e \in {"arw", "heic"} /\ variant = "image" -> [ok |-> TRUE, val |-> ImageHeic]
      [] e \in {"arw", "heic"} /\ variant = "other" -> [ok |-> TRUE, val |-> OctetStream]
      [] OTHER -> [ok |-> FALSE]

(***************************************************************************)
(* Extension::try_from: the category of a file from its name.              *)
(***************************************************************************)
\* MimeOf as it would be without `.to_lowercase()`: a faulty variant the
\* classification property has to tell from the code
MimeOfNoLowercase(ext, variant) ==
    CASE Join(ext) = "arw" -> [ok |-> TRUE, val |-> <<"i","m","a","g","e">>]
      [] Join(ext) = "heic" -> [ok |-> TRUE, val |-> <<"i","m","a","g","e">>]
      [] OTHER -> MimeGuessFirst(ext, variant)

\* the first match of Extension::try_from: the media type of an extension
MimeOf(ext, variant) ==
    LET extension == ToLowercase(ext) IN
    CASE Join(extension) = "arw" -> [ok |-> TRUE, val |-> <<"i","m","a","g","e">>]
      [] Join(extension) = "heic" -> [ok |-> TRUE, val |-> <<"i","m","a","g","e">>]
      [] OTHER -> MimeGuessFirst(extension, variant)

\* the second match of Extension::try_from: the category of a media type
CategoryOfMime(mime) ==
    CASE StartsWith(mime, <<"i","m","a","g","e">>) -> [ok |-> TRUE, val |-> "Image"]
      [] StartsWith(mime, <<"v","i","d","e","o">>) -> [ok |-> TRUE, val |-> "Video"]
      [] OTHER -> [ok |-> FALSE, err |-> "Skipping"]

ExtensionTryFrom(name, variant) ==
    LET ext == PathExtension(name) IN
    IF ~ext.ok THEN [ok |-> FALSE, err |-> "Skipping"]
    ELSE IF ~ToStr(ext.val).ok THEN [ok |-> FALSE, err |-> "Skipping"]
    ELSE LET mime == MimeOf(ext.val, variant) IN
         IF ~mime.ok THEN [ok |-> FALSE, err |-> "Mime"]
         ELSE CategoryOfMime(mime.val)

\* ExtensionFmt with its two arms exchanged: a faulty variant
ExtensionFmtSwapped(extension) ==
    IF extension = "Video" THEN "pictures" ELSE "videos"

\* Display for Extension: the directory name of a category
ExtensionFmt(extension) ==
    IF extension = "Video" THEN "videos" ELSE "pictures"

(***************************************************************************)
(* MTime::try_from: the year and month of a modification time.  A time     *)
(* in seconds since the epoch is kept as the pair (day, second of the day) *)
(* it splits into, secs = 86400 * days + sod, since a time outside the     *)
(* calendar's range does not fit the model checker's integers.             *)
(***************************************************************************)
MinYear == -262143
MaxYear == 262142

MonthNames ==
    <<"january", "february", "march", "april", "may", "june", "july",
      "august", "september", "october", "november", "december">>

\* the civil date (year, month) of a day number counted from 1970-01-01
CivilFromDays(days) ==
    LET z == days + 719468
        era == z \div 146097
        doe == z - era * 146097
        yoe == (doe - doe \div 1460 + doe \div 36524 - doe \div 146096) \div 365
        doy == doe - (365 * yoe + yoe \div 4 - yoe \div 100)
        mp == (5 * doy + 2) \div 153
        m == IF mp < 10 THEN mp + 3 ELSE mp - 9
        y == yoe + era * 400 + (IF m <= 2 THEN 1 ELSE 0)
    IN [year |-> y, month |-> m]

\* DateTime::from_timestamp(secs, 0): none outside the calendar's range
FromTimestamp(secs) ==
    LET date == CivilFromDays(secs.days) IN
    IF date.year < MinYear \/ date.year > MaxYear
    THEN [ok |-> FALSE]
    ELSE [ok |-> TRUE, val |-> date]

MTimeOfDate(date) ==
    [year |-> ToString(date.year), month |-> MonthNames[date.month]]

(***************************************************************************)
(* Paths.  A path is a sequence of components; the empty path is the       *)
(* working directory, which every relative path starts from.  The file     *)
(* system is keyed by canonical paths (no "." component).                  *)
(***************************************************************************)
Parent(p) == SubSeq(p, 1, Len(p) - 1)

Prefix(p, k) == SubSeq(p, 1, k)

IsUnder(p, root) == Len(p) >= Len(root) /\ Prefix(p, Len(root)) = root

\* the lexical part of path resolution: "." components name no directory
Canon(p) == SelectSeq(p, LAMBDA c : c # ".")

\* what resolving the directory that holds p fails with, "Ok" when it does
\* not: every proper prefix must be a directory that can be searched
ResolveParent(D, F, p) ==
    LET bad == {k \in 0..(Len(p) - 1) :
                   Prefix(p, k) \notin DOMAIN D \/ ~D[Prefix(p, k)].x}
    IN IF bad = {} THEN "Ok"
       ELSE LET k == CHOOSE i \in bad : \A j \in bad : i <= j
                q == Prefix(p, k)
            IN IF q \in DOMAIN F THEN "NotADirectory"
               ELSE IF q \notin DOMAIN D THEN "NotFound"
               ELSE "PermissionDenied"

\* stat(2) succeeds on p
Exists(D, F, p) ==
    /\ ResolveParent(D, F, p) = "Ok"
    /\ p \in DOMAIN D \cup DOMAIN F

\* Target::try_from without its directory test: a faulty variant
IsDirNever(D, F, p) == FALSE

\* Path::is_dir: false also when the path cannot be examined
IsDir(D, F, p) == Exists(D, F, Canon(p)) /\ Canon(p) \in DOMAIN D

\* std::fs::canonicalize: the canonical path of an existing entry
Canonicalize(D, F, p) ==
    IF Exists(D, F, Canon(p))
    THEN [ok |-> TRUE, val |-> Canon(p)]
    ELSE [ok |-> FALSE, err |-> "Io"]

\* the entries of directory p, as readdir reports them
Children(D, F, p) ==
    {q \in DOMAIN D \cup DOMAIN F : Len(q) = Len(p) + 1 /\ Parent(q) = p}

NewDir(secs) == [r |-> TRUE, w |-> TRUE, x |-> TRUE, secs |-> secs]

\* mkdir(2): "Ok" or the kind of its error
MkdirResult(D, F, p) ==
    IF ResolveParent(D, F, p) # "Ok" THEN ResolveParent(D, F, p)
    ELSE IF p \in DOMAIN D \cup DOMAIN F THEN "AlreadyExists"
    ELSE IF ~D[Parent(p)].w THEN "PermissionDenied"
    ELSE "Ok"

\* std::fs::create_dir_all: create p and its missing ancestors; an existing
\* directory is a success
RECURSIVE CreateDirAll(_, _, _, _)
CreateDirAll(D, F, p, now) ==
    LET first == MkdirResult(D, F, p) IN
    IF p = <<>> THEN [ok |-> TRUE, dirs |-> D]
    ELSE IF first = "Ok" THEN [ok |-> TRUE, dirs |-> (p :> NewDir(now)) @@ D]
    ELSE IF first # "NotFound"
    THEN [ok |-> Exists(D, F, p) /\ p \in DOMAIN D, dirs |-> D]
    ELSE LET up == CreateDirAll(D, F, Parent(p), now) IN
         IF ~up.ok THEN up
         ELSE IF MkdirResult(up.dirs, F, p) = "Ok"
         THEN [ok |-> TRUE, dirs |-> (p :> NewDir(now)) @@ up.dirs]
         ELSE [ok |-> Exists(up.dirs, F, p) /\ p \in DOMAIN up.dirs,
               dirs |-> up.dirs]

\* p with its leading `from` replaced by `to`
Reroot(p, from, to) == to \o SubSeq(p, Len(from) + 1, Len(p))

\* rename(2) as std::fs::rename calls it: an existing regular file at the
\* new path is replaced; a path renamed to itself is left alone
Rename(D, F, old, new) ==
    IF \/ ResolveParent(D, F, old) # "Ok"
       \/ old \notin DOMAIN D \cup DOMAIN F
       \/ ResolveParent(D, F, new) # "Ok"
    THEN [ok |-> FALSE, dirs |-> D, files |-> F]
    ELSE IF old = new THEN [ok |-> TRUE, dirs |-> D, files |-> F]
    ELSE IF ~D[Parent(old)].w \/ ~D[Parent(new)].w
    THEN [ok |-> FALSE, dirs |-> D, files |-> F]
    ELSE IF old \in DOMAIN F
    THEN IF new \in DOMAIN D
         THEN [ok |-> FALSE, dirs |-> D, files |-> F]
         ELSE [ok |-> TRUE, dirs |-> D,
               files |-> [q \in (DOMAIN F \ {old}) \cup {new} |->
                             IF q = new THEN F[old] ELSE F[q]]]
    ELSE IF \/ new \in DOMAIN F
            \/ IsUnder(new, old)
            \/ new \in DOMAIN D /\ Children(D, F, new) # {}
    THEN [ok |-> FALSE, dirs |-> D, files |-> F]
    ELSE LET movedD == {q \in DOMAIN D : IsUnder(q, old)}
             movedF == {q \in DOMAIN F : IsUnder(q, old)}
             keptD == DOMAIN D \ (movedD \cup {new})
         IN [ok |-> TRUE,
             dirs |-> [q \in keptD \cup {Reroot(m, old, new) : m \in movedD} |->
                          IF q \in keptD THEN D[q]
                          ELSE D[CHOOSE m \in movedD : Reroot(m, old, new) = q]],
             files |-> [q \in (DOMAIN F \ movedF)
                               \cup {Reroot(m, old, new) : m \in movedF} |->
                          IF q \in DOMAIN F \ movedF THEN F[q]
                          ELSE F[CHOOSE m \in movedF : Reroot(m, old, new) = q]]]

(***************************************************************************)
(* The names and times the model draws its inputs from.                    *)
(***************************************************************************)
XJpg == <<"x", ".", "j", "p", "g">>
ClipMov == <<"c", ".", "M", "O", "V">>
NotesTxt == <<"n", ".", "t", "x", "t">>
EPng == <<"e", ".", "p", "n", "g">>
DJpg == <<"d", ".", "j", "p", "g">>

\* the names of the source trees
TreeNames == {XJpg, ClipMov, NotesTxt, EPng, DJpg}

\* further names, classified one at a time
MoreNames ==
    { <<"a", ".", "J", "P", "G">>, <<"a", ".", "J", "p", "g">>,
      <<"b", ".", "P", "N", "G">>, <<"a", ".", "j", "p", "e", "g">>,
      <<"c", ".", "h", "e", "i", "c">>, <<"c", ".", "H", "E", "I", "C">>,
      <<"c", ".", "H", "e", "I", "c">>,
      <<"d", ".", "a", "r", "w">>, <<"d", ".", "A", "R", "W">>,
      <<"e", ".", "m", "p", "4">>, <<"e", ".", "M", "P", "4">>,
      <<"f", ".", "m", "o", "v">>,
      <<"p", ".", "p", "d", "f">>, <<"p", ".", "P", "D", "F">>,
      <<"s", ".", "m", "p", "3">>, <<"q", ".", "x", "y", "z">>,
      <<"n", "o", "e", "x", "t">>, <<".", "j", "p", "g">>, <<"a", ".">>,
      <<"t", ".", "t", "x", "t", ".", "j", "p", "g">>,
      <<"t", ".", "j", "p", "g", ".", "t", "x", "t">>,
      <<"<FF>", ".", "j", "p", "g">>, <<"a", ".", "<FF>">>,
      <<"h", "e", "i", "c">>, <<"a", ".", "a", "r", "w", "x">> }

AllNames == TreeNames \cup MoreNames

\* the bytes of a path component; a component outside the tables (a
\* directory the model names itself) has no "." and no invalid byte
Chars(name) ==
    IF \E cs \in AllNames : Join(cs) = name
    THEN CHOOSE cs \in AllNames : Join(cs) = name
    ELSE <<name>>

\* 2022-07-10 01:00:00, 1969-12-31 23:59:59, and a time past the calendar
T2022 == [days |-> 19183, sod |-> 3600]
T1969 == [days |-> -1, sod |-> 86399]
TFar == [days |-> 200000000, sod |-> 0]
T2024 == [days |-> 19782, sod |-> 0]

Times == {T2022, T1969, TFar}

Person == "bob"
Source == <<".", "src">>
SrcRoot == <<"src">>
Layouts == {"outside", "inside"}
DstArg(layout) == IF layout = "outside" THEN <<".", "dst">> ELSE <<".", "src", "dst">>

Hazards ==
    {"none", "dstMissing", "srcMissing", "subUnreadable", "subNoSearch",
     "subReadOnly", "dstReadOnly", "dstBlocked", "dstOccupied", "dstOccupiedDir"}

\* where a source file may lie: [dir, name]
Slots ==
    { [dir |-> <<"src">>, name |-> XJpg],
      [dir |-> <<"src", "a">>, name |-> XJpg],
      [dir |-> <<"src", "a">>, name |-> ClipMov],
      [dir |-> <<"src">>, name |-> NotesTxt],
      [dir |-> <<"src", "a", Join(DJpg)>>, name |-> EPng] }

SlotPath(s) == Append(s.dir, Join(s.name))

\* every prefix of the paths of P, the working directory included
Ancestors(P) == UNION {{Prefix(p, k) : k \in 0..(Len(p) - 1)} : p \in P}

(***************************************************************************)
(* The state.                                                              *)
(***************************************************************************)
VARIABLES
    cli,        \* the parsed arguments: source, destination, person, dry_run
    mime,       \* which media type table the build carries
    files,      \* canonical path -> [id, secs]: the regular files
    dirs,       \* canonical path -> [r, w, x, secs]: the directories
    pc,         \* where main is: start, walk, target, mkdir, rename, done, failed
    walk,       \* the WalkDir iterator: [root_pending, stack of open directories]
    item,       \* the path of the entry the loop body is processing
    target,     \* the Target built for it
    seen,       \* the entries the walk yielded, in order
    outcome,    \* entry -> how far its processing got
    calls,      \* the create_dir_all and rename calls made, with their results
    files0,     \* the regular files before the run
    dirs0       \* the directories before the run

vars == <<cli, mime, files, dirs, pc, walk, item, target, seen, outcome, calls,
          files0, dirs0>>

NoTarget == [ok |-> FALSE, err |-> "None"]

\* the file system of one configuration
TreeDirs(chosen, layout, hazard) ==
    LET dst == Canon(DstArg(layout))
        bucket == dst \o <<"pictures", Person, "2022", "july">>
        base == Ancestors({SlotPath(s) : s \in chosen}) \cup {<<>>, SrcRoot, <<"src", "a">>}
        withDst == IF hazard = "dstMissing" THEN base
                   ELSE base \cup Ancestors({dst}) \cup {dst}
        withBucket == IF hazard \in {"dstOccupied", "dstOccupiedDir"}
                      THEN withDst \cup Ancestors({bucket}) \cup {bucket}
                      ELSE withDst
        all == IF hazard = "dstOccupiedDir"
               THEN withBucket \cup {Append(bucket, Join(XJpg))}
               ELSE withBucket
        kept == IF hazard = "srcMissing"
                THEN {p \in all : ~IsUnder(p, SrcRoot)}
                ELSE all
    IN [p \in kept |->
          [r |-> ~(hazard = "subUnreadable" /\ p = <<"src", "a">>),
           w |-> ~(\/ hazard = "subReadOnly" /\ p = <<"src", "a">>
                   \/ hazard = "dstReadOnly" /\ p = dst),
           x |-> ~(hazard = "subNoSearch" /\ p = <<"src", "a">>),
           secs |-> T2022]]

TreeFiles(chosen, secsOf, layout, hazard) ==
    LET dst == Canon(DstArg(layout))
        bucket == dst \o <<"pictures", Person, "2022", "july">>
        own == [p \in {SlotPath(s) : s \in chosen} |->
                  [id |-> p, secs |-> secsOf[CHOOSE s \in chosen : SlotPath(s) = p]]]
        extra == CASE hazard = "dstBlocked" ->
                        (Append(dst, "pictures") :> [id |-> <<"blocker">>, secs |-> T2022])
                   [] hazard = "dstOccupied" ->
                        (Append(bucket, Join(XJpg)) :> [id |-> <<"occupant">>, secs |-> T2022])
                   [] OTHER -> <<>>
        all == own @@ extra
    IN IF hazard = "srcMissing"
       THEN [p \in {q \in DOMAIN all : ~IsUnder(q, SrcRoot)} |-> all[p]]
       ELSE all

Init ==
    \E chosen \in SUBSET Slots, layout \in Layouts, hazard \in Hazards, dry \in BOOLEAN :
      \E secsOf \in [chosen -> Times] :
        /\ Cardinality(chosen) \in 1..MaxFiles
        /\ cli = [source |-> Source, destination |-> DstArg(layout),
                  person |-> Person, dry_run |-> dry]
        /\ mime = "image"
        /\ files = TreeFiles(chosen, secsOf, layout, hazard)
        /\ dirs = TreeDirs(chosen, layout, hazard)
        /\ files0 = files
        /\ dirs0 = dirs
        /\ pc = "start"
        /\ walk = [root_pending |-> TRUE, stack |-> <<>>]
        /\ item = <<>>
        /\ target = NoTarget
        /\ seen = <<>>
        /\ outcome = <<>>
        /\ calls = {}

(***************************************************************************)
(* Target::try_from and its parts.                                         *)
(***************************************************************************)
\* MTime::try_from: the metadata of the file, then its year and month
MTimeTryFrom(D, F, abs) ==
    IF ~Exists(D, F, abs) THEN [ok |-> FALSE, err |-> "Io"]
    ELSE LET secs == IF abs \in DOMAIN F THEN F[abs].secs ELSE D[abs].secs
             date == FromTimestamp(secs)
         IN IF ~date.ok THEN [ok |-> FALSE, err |-> "DateTime"]
            ELSE [ok |-> TRUE, val |-> MTimeOfDate(date.val)]

TargetTryFrom(D, F, path, variant) ==
    IF IsDir(D, F, path) THEN [ok |-> FALSE, err |-> "Dir"]
    ELSE LET abs == Canonicalize(D, F, path) IN
    IF ~abs.ok THEN [ok |-> FALSE, err |-> "Io"]
    ELSE IF abs.val = <<>> THEN [ok |-> FALSE, err |-> "Skipping"]
    ELSE LET bytes == Chars(abs.val[Len(abs.val)])
             extension == ExtensionTryFrom(bytes, variant)
             mtime == MTimeTryFrom(D, F, abs.val)
         IN IF ~extension.ok THEN extension
            ELSE IF ~ToStr(bytes).ok THEN [ok |-> FALSE, err |-> "NoName"]
            ELSE IF ~mtime.ok THEN mtime
            ELSE [ok |-> TRUE, abs_path |-> abs.val, extension |-> extension.val,
                  mtime |-> mtime.val, name |-> Join(bytes)]

\* lines 165-175 of main: the directory and the path the file is moved to
DestDir(c, t) ==
    c.destination \o <<ExtensionFmt(t.extension), c.person, t.mtime.year, t.mtime.month>>

DestFile(c, t) == Append(DestDir(c, t), t.name)

(***************************************************************************)
(* WalkDir: a depth-first walk that opens a directory when it yields it    *)
(* and reads its entries, in no particular order, on the following calls.  *)
(***************************************************************************)
\* fs::read_dir of the directory at walker path wp, as a frame of the stack
ReadDirFrame(D, F, wp) ==
    LET p == Canon(wp) IN
    IF Exists(D, F, p) /\ p \in DOMAIN D /\ D[p].r
    THEN [dir |-> wp, err |-> FALSE,
          rest |-> {[name |-> q[Len(q)], is_dir |-> q \in DOMAIN D] :
                       q \in Children(D, F, p)}]
    ELSE [dir |-> wp, err |-> TRUE, rest |-> {}]

\* the stack without the directories on top of it that are read to the end
RECURSIVE PopExhausted(_)
PopExhausted(stack) ==
    IF stack = <<>> THEN stack
    ELSE LET top == stack[Len(stack)] IN
         IF ~top.err /\ top.rest = {}
         THEN PopExhausted(SubSeq(stack, 1, Len(stack) - 1))
         ELSE stack

Record(i, v) == [q \in DOMAIN outcome \cup {i} |-> IF q = i THEN v ELSE outcome[q]]

(***************************************************************************)
(* main.                                                                   *)
(***************************************************************************)
\* line 151: canonicalize the destination, or leave with the error
Start ==
    /\ pc = "start"
    /\ LET c == Canonicalize(dirs, files, cli.destination) IN
         IF c.ok
         THEN /\ cli' = [cli EXCEPT !.destination = c.val]
              /\ pc' = "walk"
         ELSE /\ pc' = "failed"
              /\ UNCHANGED cli
    /\ UNCHANGED <<mime, files, dirs, walk, item, target, seen, outcome, calls,
                   files0, dirs0>>

\* lines 153-155, the first item: the root itself, or the error of reaching it
WalkRoot ==
    /\ pc = "walk"
    /\ walk.root_pending
    /\ IF Exists(dirs, files, Canon(cli.source))
       THEN /\ walk' = [root_pending |-> FALSE,
                        stack |-> IF Canon(cli.source) \in DOMAIN dirs
                                  THEN <<ReadDirFrame(dirs, files, cli.source)>>
                                  ELSE <<>>]
            /\ item' = cli.source
            /\ seen' = Append(seen, cli.source)
            /\ outcome' = Record(cli.source, [state |-> "discovered"])
            /\ pc' = "target"
       ELSE /\ walk' = [root_pending |-> FALSE, stack |-> <<>>]
            /\ pc' = "failed"
            /\ UNCHANGED <<item, seen, outcome>>
    /\ UNCHANGED <<cli, mime, files, dirs, target, calls, files0, dirs0>>

\* lines 153-155: the next entry of the directory on top of the stack
WalkEntry ==
    /\ pc = "walk"
    /\ ~walk.root_pending
    /\ LET stack == PopExhausted(walk.stack) IN
         /\ stack # <<>>
         /\ ~stack[Len(stack)].err
         /\ \E e \in stack[Len(stack)].rest :
              LET top == stack[Len(stack)]
                  path == Append(top.dir, e.name)
                  read == [stack EXCEPT ![Len(stack)].rest = @ \ {e}]
              IN /\ walk' = [root_pending |-> FALSE,
                             stack |-> IF e.is_dir
                                       THEN Append(read, ReadDirFrame(dirs, files, path))
                                       ELSE read]
                 /\ item' = path
                 /\ seen' = Append(seen, path)
                 /\ outcome' = Record(path, [state |-> "discovered"])
                 /\ pc' = "target"
    /\ UNCHANGED <<cli, mime, files, dirs, target, calls, files0, dirs0>>

\* line 154: a directory that could not be opened yields an error, and `?`
\* returns it from main
WalkError ==
    /\ pc = "walk"
    /\ ~walk.root_pending
    /\ LET stack == PopExhausted(walk.stack) IN
         /\ stack # <<>>
         /\ stack[Len(stack)].err
         /\ walk' = [root_pending |-> FALSE, stack |-> SubSeq(stack, 1, Len(stack) - 1)]
    /\ pc' = "failed"
    /\ UNCHANGED <<cli, mime, files, dirs, item, target, seen, outcome, calls,
                   files0, dirs0>>

\* line 191: the walk is exhausted
WalkDone ==
    /\ pc = "walk"
    /\ ~walk.root_pending
    /\ PopExhausted(walk.stack) = <<>>
    /\ walk' = [root_pending |-> FALSE, stack |-> <<>>]
    /\ pc' = "done"
    /\ UNCHANGED <<cli, mime, files, dirs, item, target, seen, outcome, calls,
                   files0, dirs0>>

\* lines 157-175: build the Target; an error is printed and the loop continues
BuildTarget ==
    /\ pc = "target"
    /\ LET t == TargetTryFrom(dirs, files, item, mime) IN
         IF t.ok
         THEN /\ target' = t
              /\ outcome' = Record(item, [state |-> "resolved", dest |-> DestFile(cli, t)])
              /\ pc' = "mkdir"
         ELSE /\ target' = NoTarget
              /\ outcome' = Record(item, [state |-> "rejected", err |-> t.err])
              /\ pc' = "walk"
    /\ UNCHANGED <<cli, mime, files, dirs, walk, item, seen, calls, files0, dirs0>>

\* lines 177-180: create the destination directory; a failure is printed
CreateDestDir ==
    /\ pc = "mkdir"
    /\ LET made == CreateDirAll(dirs, files, DestDir(cli, target), T2022) IN
         /\ dirs' = made.dirs
         /\ calls' = calls \cup {[item |-> item, op |-> "create_dir_all", ok |-> made.ok]}
    /\ pc' = "rename"
    /\ UNCHANGED <<cli, mime, files, walk, item, target, seen, outcome, files0, dirs0>>

\* lines 182-185: rename the file; a failure is printed
MoveFile ==
    /\ pc = "rename"
    /\ LET moved == Rename(dirs, files, target.abs_path, DestFile(cli, target)) IN
         /\ dirs' = moved.dirs
         /\ files' = moved.files
         /\ calls' = calls \cup {[item |-> item, op |-> "rename", ok |-> moved.ok]}
         /\ outcome' = Record(item, [state |-> IF moved.ok THEN "moved" ELSE "refused",
                                     dest |-> DestFile(cli, target),
                                     id |-> IF target.abs_path \in DOMAIN files
                                            THEN files[target.abs_path].id
                                            ELSE target.abs_path])
    /\ pc' = "walk"
    /\ UNCHANGED <<cli, mime, walk, item, target, seen, files0, dirs0>>

Next ==
    \/ Start
    \/ WalkRoot
    \/ WalkEntry
    \/ WalkError
    \/ WalkDone
    \/ BuildTarget
    \/ CreateDestDir
    \/ MoveFile

Spec == Init /\ [][Next]_vars

(***************************************************************************)
(* Classification of one name at a time: the loop body has been handed the *)
(* only file of the source tree, under each variant of the media type      *)
(* table, and builds its Target.                                           *)
(***************************************************************************)
InitClassify ==
    \E name \in AllNames, variant \in MimeVariants, secs \in {T2022, T2024} :
      LET path == Append(SrcRoot, Join(name)) IN
        /\ cli = [source |-> Source, destination |-> Canon(DstArg("outside")),
                  person |-> Person, dry_run |-> FALSE]
        /\ mime = variant
        /\ files = (path :> [id |-> path, secs |-> secs])
        /\ dirs = TreeDirs({}, "outside", "none")
        /\ files0 = files
        /\ dirs0 = dirs
        /\ pc = "target"
        /\ walk = [root_pending |-> FALSE,
                   stack |-> <<[dir |-> Source, err |-> FALSE,
                                rest |-> {[name |-> "a", is_dir |-> TRUE]}]>>]
        /\ item = Append(Source, Join(name))
        /\ target = NoTarget
        /\ seen = <<Source, Append(Source, Join(name))>>
        /\ outcome = (Source :> [state |-> "rejected", err |-> "Dir"])
                       @@ (Append(Source, Join(name)) :> [state |-> "discovered"])
        /\ calls = {}

NextClassify == BuildTarget

SpecClassify == InitClassify /\ [][NextClassify]_vars

(***************************************************************************)
(* What the properties below speak of.                                     *)
(***************************************************************************)
Terminal == {"rejected", "moved", "refused"}

Halted == pc \in {"done", "failed"}

\* the names the specification classifies as pictures and as videos
ExpectedImage ==
    {"x.jpg", "d.jpg", "e.png", "a.JPG", "a.Jpg", "b.PNG", "a.jpeg", "c.heic",
     "c.HEIC", "c.HeIc", "d.arw", "d.ARW", "t.txt.jpg", "<FF>.jpg"}

ExpectedVideo == {"c.MOV", "e.mp4", "e.MP4", "f.mov"}

\* the year and month the specification expects of the times of the model
ExpectedBucket(secs) ==
    CASE secs = T2022 -> <<"2022", "july">>
      [] secs = T1969 -> <<"1969", "december">>
      [] secs = T2024 -> <<"2024", "february">>
      [] OTHER -> <<"?", "?">>

\* destination_root / category_label / owner / year / month / file_name
ExpectedPath(name, secs) ==
    Canon(cli.destination)
      \o <<IF name \in ExpectedImage THEN "pictures" ELSE "videos", Person>>
      \o ExpectedBucket(secs) \o <<name>>

\* where the file of identity id lay before the run
Orig(id) == CHOOSE p \in DOMAIN files0 : files0[p].id = id

CallsFor(i) == {c \in calls : c.item = i}

\* C1: an eligible entry whose destination is occupied by another file when
\* the move step is reached is refused: no file changes and the entry ends
\* as skipped.
C1_OccupiedDestinationRefusesMove ==
    [][(/\ pc = "rename"
        /\ DestFile(cli, target) \in DOMAIN files
        /\ DestFile(cli, target) # target.abs_path)
       => (/\ files' = files
           /\ outcome'[item].state = "refused")]_vars

\* C2: with dry_run set, the files and directories stay as they were before
\* the run and no directory creation or rename is performed.
C2_DryRunTouchesNothing ==
    cli.dry_run => (files = files0 /\ dirs = dirs0 /\ calls = {})

\* C3: the run ends in failure only on a setup error, before any entry was
\* discovered; an error about one entry never ends it.
C3_OnlySetupErrorsFailTheRun ==
    pc = "failed" => seen = <<>>

\* C4: an entry whose destination directory could not be created is skipped:
\* no rename is attempted for it.
C4_FailedDirCreationSkipsEntry ==
    \A c \in calls :
        (c.op = "create_dir_all" /\ ~c.ok)
            => ~\E m \in CallsFor(c.item) : m.op = "rename"

\* C5: the category Target::try_from gives a name is the one of the reference
\* mapping on its lowercased extension, whatever the media type table holds
\* for arw and heic; every other name fails classification.
C5_ClassificationMatchesReference ==
    (item # <<>> /\ outcome[item].state # "discovered"
        /\ Canon(item) \in DOMAIN files0)
    => LET name == item[Len(item)]
           o == outcome[item]
           failsClassifying == o.state = "rejected" /\ o.err \in {"Skipping", "Mime"}
           failsLater == o.state = "rejected" /\ o.err \in {"NoName", "DateTime", "Io"}
       IN /\ name \in ExpectedImage =>
                \/ pc = "mkdir" /\ target.ok /\ target.extension = "Image"
                \/ pc # "mkdir" /\ (failsLater \/ o.state \in {"moved", "refused"})
          /\ name \in ExpectedVideo =>
                \/ pc = "mkdir" /\ target.ok /\ target.extension = "Video"
                \/ pc # "mkdir" /\ (failsLater \/ o.state \in {"moved", "refused"})
          /\ name \notin ExpectedImage \cup ExpectedVideo => failsClassifying

C5_Witness ==
    /\ pc = "mkdir"
    /\ mime = "other"
    /\ target.ok
    /\ target.name = "c.HEIC"
    /\ target.extension = "Image"

\* C6: a file found anywhere but where it lay before the run lies at
\* destination/label/person/year/month/name, label being pictures or videos
\* by its category and (year, month) the bucket of its modification time;
\* every entry reported as moved was moved to that path.
C6_MovedFilesAtResolvedPath ==
    /\ \A p \in DOMAIN files :
          \/ p \in DOMAIN files0 /\ files0[p] = files[p]
          \/ p = ExpectedPath(Orig(files[p].id)[Len(Orig(files[p].id))], files[p].secs)
    /\ \A i \in DOMAIN outcome :
          outcome[i].state = "moved" =>
              outcome[i].dest =
                  ExpectedPath(Orig(outcome[i].id)[Len(Orig(outcome[i].id))],
                               files0[Orig(outcome[i].id)].secs)

C6_Witness ==
    /\ pc = "done"
    /\ \E i \in DOMAIN outcome :
          /\ outcome[i].state = "moved"
          /\ outcome[i].dest = <<"dst", "videos", "bob", "1969", "december", "c.MOV">>
          /\ outcome[i].dest \in DOMAIN files
          /\ files[outcome[i].dest].id = <<"src", "a", "c.MOV">>
          /\ <<"src", "a", "c.MOV">> \notin DOMAIN files

\* the entries the specification says cannot become a Target: a directory, a
\* name that is no picture or video, a time outside the calendar, a file
\* whose metadata cannot be read
ShouldReject(i) ==
    LET p == Canon(i) IN
    \/ p \in DOMAIN dirs0 \cup DOMAIN dirs
    \/ p[Len(p)] \notin ExpectedImage \cup ExpectedVideo
    \/ p \in DOMAIN files /\ files[p].secs = TFar
    \/ \E k \in 0..(Len(p) - 1) :
          Prefix(p, k) \in DOMAIN dirs0 /\ ~dirs0[Prefix(p, k)].x

C7_State ==
    /\ \A i \in DOMAIN outcome :
          /\ (outcome[i].state # "discovered" /\ ShouldReject(i))
                => outcome[i].state = "rejected"
          /\ outcome[i].state = "rejected" => CallsFor(i) = {}
    /\ \A p \in DOMAIN dirs0 : p \in DOMAIN dirs /\ dirs[p] = dirs0[p]

C7_Step ==
    (pc = "target" /\ pc' = "walk") => UNCHANGED <<files, dirs, calls>>

\* C7: an entry for which no Target can be built is rejected and leaves the
\* file system as it was: nothing is renamed, no directory is created on its
\* behalf, and every directory stays where it was, at any depth.
C7_RejectedEntryLeavesFilesystem == [](C7_State) /\ [][C7_Step]_vars

C7_Witness ==
    /\ pc = "done"
    /\ <<".", "src", "a", "d.jpg">> \in DOMAIN outcome
    /\ outcome[<<".", "src", "a", "d.jpg">>] = [state |-> "rejected", err |-> "Dir"]
    /\ <<"src", "a", "d.jpg">> \in DOMAIN dirs
    /\ \E i \in DOMAIN outcome : outcome[i].state = "moved"

\* C8: at every state of a run, the file of an entry not yet discovered is
\* at its source path with its content, the file of an entry reported as
\* moved is at its destination and not at its source, and only the entry in
\* hand is short of its final outcome.
C8_InterruptedRunIsConsistent ==
    /\ \A p \in DOMAIN files0 :
          (IsUnder(p, SrcRoot) /\ (<<".">> \o p) \notin DOMAIN outcome)
              => (p \in DOMAIN files /\ files[p] = files0[p])
    /\ \A i \in DOMAIN outcome :
          outcome[i].state = "moved" =>
              /\ outcome[i].dest \in DOMAIN files
              /\ files[outcome[i].dest].id = outcome[i].id
              /\ (outcome[i].dest # Canon(i) => Canon(i) \notin DOMAIN files)
    /\ \A i \in DOMAIN outcome : i # item => outcome[i].state \in Terminal

\* C9: no entry is discovered twice, every entry passes from discovered to
\* rejected or resolved and from resolved to moved or refused, and a run
\* that began its traversal ends with the traversal exhausted and every
\* discovered entry at a final outcome.
C9_EveryEntryReachesOutcome ==
    /\ \A m, n \in 1..Len(seen) : seen[m] = seen[n] => m = n
    /\ \A i \in DOMAIN outcome : i # item => outcome[i].state \in Terminal
    /\ (Halted /\ seen # <<>>) =>
          /\ pc = "done"
          /\ \A k \in 1..Len(walk.stack) : walk.stack[k].rest = {}
          /\ \A i \in DOMAIN outcome : outcome[i].state \in Terminal

\* C10: every file that existed before the run still exists with its
\* content, and the number of files is unchanged.
C10_EveryFileSurvives ==
    /\ \A p \in DOMAIN files0 : \E q \in DOMAIN files : files[q] = files0[p]
    /\ Cardinality(DOMAIN files) = Cardinality(DOMAIN files0)

====
